---- MODULE Spec2Model ----
(***************************************************************************)
(* A model of unmix: the audio I/O boundary (audio_io.py), the band        *)
(* filter and the drum band splitter (filters.py), the stem separator      *)
(* (separator.py) and the command line entry point (cli.py).               *)
(*                                                                         *)
(* One behaviour is one process: the environment (which libraries import,  *)
(* what is on disk) is fixed by Init, then one top-level call is made,     *)
(* either main() or one of the functions exported by unmix/__init__.py,    *)
(* and runs to its return, its exception or the process exit.              *)
(*                                                                         *)
(* Frequencies are integers in Hz.  A normalized frequency f/(sr/2) is     *)
(* kept as the integer 200*f in units of 1/(100*sr), so that 1.0 is        *)
(* 100*sr and the clamp 0.99 is 99*sr.                                     *)
(***************************************************************************)
EXTENDS Integers, Sequences, FiniteSets, TLC

VARIABLES
    installed,      \* the libraries that import in this environment
    dirs,           \* the directories that exist
    files,          \* the files that exist: path -> content
    pc,             \* position of the process
    call,           \* the top-level call and its arguments
    result,         \* what a library call gave its caller: [exc, value]
    exit_code,      \* -1 while the process runs, else the code of sys.exit
    stdout,         \* the messages printed, in order
    written,        \* log of the files written: <<function, path>>, in order
    returned,       \* the functions that have returned normally
    decoded,        \* the paths handed to librosa.load
    designed,       \* the band edges handed to signal.butter, in order
    drum_file,      \* separate_drums: argument drum_file
    drum_dir,       \* separate_drums: argument output_dir
    y,              \* separate_drums: the loaded waveform
    sr,             \* separate_drums: the loaded sample rate
    output_files,   \* separate_drums: label -> path, as built so far
    band_i,         \* separate_drums: the band block about to run (1..4)
    drum_files,     \* the mapping separate_drums returned (<<>> before)
    stem_names,     \* separate_stems: separator.sources
    stem_i,         \* separate_stems: loop index of the save loop
    stem_out,       \* separate_stems: output_files as built so far
    stem_files      \* the mapping separate_stems returned (<<>> before)

vars == <<installed, dirs, files, pc, call, result, exit_code, stdout, written,
          returned, decoded, designed, drum_file, drum_dir, y, sr, output_files,
          band_i, drum_files, stem_names, stem_i, stem_out, stem_files>>

(***************************************************************************)
(* Bounds of the model.                                                    *)
(***************************************************************************)
MaxSamples == 2

(***************************************************************************)
(* Program constants.                                                      *)
(***************************************************************************)
DrumSampleRate == 44100
FilterOrder == 4
ClampPercent == 99
Headroom == 95
DefaultBitDepth == 16
SeparatorSampleRate == 44100

ValidBitDepths == {8, 16, 24, 32}

SubtypeMap == [b \in ValidBitDepths |->
                 CASE b = 8 -> "PCM_S8"
                   [] b = 16 -> "PCM_16"
                   [] b = 24 -> "PCM_24"
                   [] b = 32 -> "PCM_32"]

(***************************************************************************)
(* Values.                                                                 *)
(***************************************************************************)
Min(a, b) == IF a <= b THEN a ELSE b

Max(a, b) == IF a >= b THEN a ELSE b

Abs(a) == IF a < 0 THEN -a ELSE a

Ok(v) == [exc |-> "none", value |-> v]

Raise(e) == [exc |-> e, value |-> <<>>]

\* Sample values, in percent of full scale.
SampleValues == {0, 50}

ChannelCounts == {1, 2}

SampleSeqs == UNION {[1..n -> SampleValues] : n \in 0..MaxSamples}

\* numpy arrays of shape (samples,)
MonoWaves == {[shape |-> <<Len(d)>>, data |-> d] : d \in SampleSeqs}

\* numpy arrays of shape (channels, samples)
MultiWaves == UNION {{[shape |-> <<c, n>>, data |-> d] :
                         d \in [1..c -> [1..n -> SampleValues]]} :
                     c \in ChannelCounts, n \in 0..MaxSamples}

Waveforms == MonoWaves \cup MultiWaves

EmptyWave == [shape |-> <<0>>, data |-> <<>>]

\* len(audio.shape)
NDim(audio) == Len(audio.shape)

\* The array holds what its shape says.
WellShaped(audio) ==
    IF NDim(audio) = 1
    THEN Len(audio.data) = audio.shape[1]
    ELSE /\ NDim(audio) = 2
         /\ Len(audio.data) = audio.shape[1]
         /\ \A i \in 1..Len(audio.data) : Len(audio.data[i]) = audio.shape[2]

(***************************************************************************)
(* filters.py: filter_frequency_range                                      *)
(***************************************************************************)
\* f / nyquist, nyquist = sr / 2, in units of 1/(100*sr)
NormFreq(freq, rate) == 200 * freq

\* 1.0 in units of 1/(100*sr)
NormOne(rate) == 100 * rate

\* 0.99 in units of 1/(100*sr)
NormClamp(rate) == ClampPercent * rate

\* high = min(high_freq / nyquist, 0.99)
HighEdge(rate, high_freq) == Min(NormFreq(high_freq, rate), NormClamp(rate))

\* low = low_freq / nyquist
LowEdge(rate, low_freq) == NormFreq(low_freq, rate)

\* scipy.signal.butter(4, [low, high], btype='band', output='sos').  Every
\* scipy rejects an edge outside (0, 1); whether low >= high is rejected
\* depends on the scipy that is installed.
Butter(N, low, high, rate) ==
    IF low <= 0 \/ high <= 0 \/ low >= NormOne(rate) \/ high >= NormOne(rate)
    THEN Raise("ValueError")
    ELSE IF low >= high /\ "scipy_checks_order" \in installed
    THEN Raise("ValueError")
    ELSE Ok([order |-> N, low |-> low, high |-> high, one |-> NormOne(rate)])

\* scipy.signal.sosfilt(sos, x) on one channel: a causal filter, so output
\* sample n is a function of the filter and of x[1..n].
Sosfilt(sos, x) == [n \in 1..Len(x) |-> [sos |-> sos, past |-> SubSeq(x, 1, n)]]

\* np.zeros_like(audio)
ZerosLike(audio) ==
    [shape |-> audio.shape,
     data |-> [i \in 1..Len(audio.data) |->
                 [n \in 1..Len(audio.data[i]) |-> 0]]]

\* for i in range(audio.shape[0]): filtered[i] = signal.sosfilt(sos, audio[i])
RECURSIVE FilterChannels(_, _, _, _)
FilterChannels(sos, audio, filtered, i) ==
    IF i > audio.shape[1]
    THEN filtered
    ELSE FilterChannels(sos, audio,
             [filtered EXCEPT !.data[i] = Sosfilt(sos, audio.data[i])], i + 1)

\* A slip in the channel loop: the filtered channels are summed into one.
ApplyFilterMixdown(sos, audio) ==
    IF NDim(audio) > 1
    THEN [shape |-> <<audio.shape[2]>>,
          data |-> IF audio.shape[1] > 0 THEN Sosfilt(sos, audio.data[1])
                   ELSE <<>>]
    ELSE [shape |-> audio.shape, data |-> Sosfilt(sos, audio.data)]

\* filters.py, "Apply filter"
ApplyFilter(sos, audio) ==
    IF NDim(audio) > 1
    THEN FilterChannels(sos, audio, ZerosLike(audio), 1)
    ELSE [shape |-> audio.shape, data |-> Sosfilt(sos, audio.data)]

\* A slip in the multi-channel branch: the buffer the loop fills is the input
\* array itself, cleared first, instead of a new array of zeros.
AudioAfterFilterCleared(audio) ==
    IF NDim(audio) > 1 THEN ZerosLike(audio) ELSE audio

\* What the caller's array holds after filter_frequency_range(audio, ...):
\* the function assigns only into the array np.zeros_like gave it and binds
\* the arrays sosfilt returns, so the argument is as it was.
AudioAfterFilter(audio) == audio

\* The band edges handed to butter, without the clamp.
DesignEdgesUnclamped(rate, low_freq, high_freq) ==
    [low |-> LowEdge(rate, low_freq), high |-> NormFreq(high_freq, rate)]

\* The band edges handed to butter.
DesignEdges(rate, low_freq, high_freq) ==
    [low |-> LowEdge(rate, low_freq), high |-> HighEdge(rate, high_freq)]

FilterFrequencyRange(audio, rate, low_freq, high_freq) ==
    IF "scipy" \notin installed
    THEN Raise("ImportError")
    ELSE LET edges == DesignEdges(rate, low_freq, high_freq)
             design == Butter(FilterOrder, edges.low, edges.high, rate)
         IN  IF design.exc # "none"
             THEN design
             ELSE Ok(ApplyFilter(design.value, audio))

(***************************************************************************)
(* audio_io.py                                                             *)
(***************************************************************************)
Path(dir, name) == [dir |-> dir, name |-> name]

\* Path(p).stem: the file name without its extension
PathStem(p) == p.name

\* audio.T
Transpose(audio) ==
    [shape |-> <<audio.shape[2], audio.shape[1]>>,
     data |-> [n \in 1..audio.shape[2] |->
                 [c \in 1..audio.shape[1] |-> audio.data[c][n]]]]

\* np.abs(audio).max()
RECURSIVE SeqMaxAbs(_)
SeqMaxAbs(s) ==
    IF s = <<>> THEN 0 ELSE Max(Abs(Head(s)), SeqMaxAbs(Tail(s)))

RECURSIVE MaxAbs2(_)
MaxAbs2(rows) ==
    IF rows = <<>> THEN 0 ELSE Max(SeqMaxAbs(Head(rows)), MaxAbs2(Tail(rows)))

MaxAbs(audio) ==
    IF NDim(audio) > 1 THEN MaxAbs2(audio.data) ELSE SeqMaxAbs(audio.data)

\* audio / max_val * 0.95, in percent of full scale
Scale(x, max_val) == (x * Headroom) \div max_val

NormalizeAudio(audio) ==
    LET max_val == MaxAbs(audio)
    IN  IF max_val > 0
        THEN IF NDim(audio) > 1
             THEN [audio EXCEPT !.data =
                      [c \in 1..Len(audio.data) |->
                         [n \in 1..Len(audio.data[c]) |->
                            Scale(audio.data[c][n], max_val)]]]
             ELSE [audio EXCEPT !.data =
                      [n \in 1..Len(audio.data) |->
                         Scale(audio.data[n], max_val)]]
        ELSE audio

\* files with one file written (created or overwritten)
PutFile(fs, p, content) ==
    [q \in (DOMAIN fs) \cup {p} |-> IF q = p THEN content ELSE fs[q]]

\* write_audio_file: what it raises and the file system it leaves.
\* sf_fails: sf.write raises.
WriteAudioFile(filepath, audio, sample_rate, bit_depth, normalize, sf_fails) ==
    IF "soundfile" \notin installed
    THEN [exc |-> "ImportError", dirs |-> dirs, files |-> files,
          wrote |-> FALSE]
    ELSE LET made == dirs \cup {filepath.dir}
         IN  IF bit_depth \notin ValidBitDepths
             THEN [exc |-> "ValueError", dirs |-> made, files |-> files,
                   wrote |-> FALSE]
             ELSE LET scaled == IF normalize THEN NormalizeAudio(audio)
                                ELSE audio
                      frames == IF NDim(scaled) > 1 THEN Transpose(scaled)
                                ELSE scaled
                  IN  IF sf_fails
                      THEN [exc |-> "ValueError", dirs |-> made,
                            files |-> files, wrote |-> FALSE]
                      ELSE [exc |-> "none", dirs |-> made,
                            files |-> PutFile(files, filepath,
                                        [audio |-> frames,
                                         samplerate |-> sample_rate,
                                         subtype |-> SubtypeMap[bit_depth]]),
                            wrote |-> TRUE]

\* A slip in load_audio_file: the path is handed to librosa.load without the
\* check that it exists.
LoadAudioFileUnchecked(filepath, sample_rate, mono, audio, decode_fails) ==
    IF "librosa" \notin installed
    THEN [exc |-> "ImportError", value |-> <<>>, decode |-> FALSE]
    ELSE IF decode_fails \/ filepath \notin DOMAIN files
    THEN [exc |-> "ValueError", value |-> <<>>, decode |-> TRUE]
    ELSE [exc |-> "none",
          value |-> [audio |-> audio,
                     sr |-> IF sample_rate = 0 THEN files[filepath].samplerate
                            ELSE sample_rate],
          decode |-> TRUE]

\* load_audio_file: what it raises or returns, and whether librosa.load was
\* called.  sample_rate = 0 stands for None.  audio: what librosa.load
\* decodes; decode_fails: librosa.load raises.
LoadAudioFile(filepath, sample_rate, mono, audio, decode_fails) ==
    IF "librosa" \notin installed
    THEN [exc |-> "ImportError", value |-> <<>>, decode |-> FALSE]
    ELSE IF filepath \notin DOMAIN files
    THEN [exc |-> "FileNotFoundError", value |-> <<>>, decode |-> FALSE]
    ELSE IF decode_fails
    THEN [exc |-> "ValueError", value |-> <<>>, decode |-> TRUE]
    ELSE [exc |-> "none",
          value |-> [audio |-> audio,
                     sr |-> IF sample_rate = 0 THEN files[filepath].samplerate
                            ELSE sample_rate],
          decode |-> TRUE]

(***************************************************************************)
(* filters.py: separate_drums                                              *)
(***************************************************************************)
\* d[k] = v
DictSet(d, k, v) == [q \in (DOMAIN d) \cup {k} |-> IF q = k THEN v ELSE d[q]]

\* A slip in the band table: the toms block filters with the kick band.
DrumBandsTomsAsKick(rate) ==
    << [label |-> "kick",  low |-> 20,   high |-> 200],
       [label |-> "snare", low |-> 150,  high |-> 4000],
       [label |-> "hihat", low |-> 5000, high |-> rate \div 2],
       [label |-> "toms",  low |-> 20,   high |-> 200] >>

\* The four band blocks of separate_drums, in the order of the code.
DrumBands(rate) ==
    << [label |-> "kick",  low |-> 20,   high |-> 200],
       [label |-> "snare", low |-> 150,  high |-> 4000],
       [label |-> "hihat", low |-> 5000, high |-> rate \div 2],
       [label |-> "toms",  low |-> 80,   high |-> 500] >>

\* A slip in the file name: the label is left out of it.
BandFileNoLabel(output_dir, input, label) == Path(output_dir, PathStem(input))

\* output_path / f"{Path(drum_file).stem}_{label}.wav"
BandFile(output_dir, input, label) ==
    Path(output_dir, Append(PathStem(input), label))

\* A slip in the handlers: the process ends with exit code 0.
DrumsHandlerExitZero(exc) ==
    [message |-> IF exc = "ImportError" THEN "error_missing_library"
                 ELSE "error_during_drum_separation",
     code |-> 0]

\* The two except blocks of separate_drums: the message printed and the
\* code given to sys.exit.
DrumsHandler(exc) ==
    [message |-> IF exc = "ImportError" THEN "error_missing_library"
                 ELSE "error_during_drum_separation",
     code |-> 1]

\* separate_drums, from the import to output_files = {}
DrumsLoad ==
    /\ pc = "drums_load"
    /\ \E audio \in Waveforms, decode_fails \in BOOLEAN :
         LET imported == "scipy" \in installed
             got == IF imported
                    THEN LoadAudioFile(drum_file, DrumSampleRate, FALSE, audio,
                                       decode_fails)
                    ELSE [exc |-> "ImportError", value |-> <<>>,
                          decode |-> FALSE]
             ok == got.exc = "none"
             handler == DrumsHandler(got.exc)
         IN  /\ decoded' = IF got.decode THEN decoded \cup {drum_file}
                           ELSE decoded
             /\ y' = IF ok THEN got.value.audio ELSE y
             /\ sr' = IF ok THEN got.value.sr ELSE sr
             /\ dirs' = IF ok THEN dirs \cup {drum_dir} ELSE dirs
             /\ output_files' = <<>>
             /\ band_i' = 1
             /\ stdout' = stdout
                            \o (IF imported THEN <<"loading_drum_file">>
                                ELSE <<>>)
                            \o (IF ok THEN <<"analyzing">>
                                ELSE <<handler.message>>)
             /\ exit_code' = IF ok THEN exit_code ELSE handler.code
             /\ pc' = IF ok THEN "drums_band" ELSE "exited"
    /\ UNCHANGED <<returned, installed, files, call, result, written, designed, drum_file,
                   drum_dir, drum_files, stem_names, stem_i, stem_out, stem_files>>

\* separate_drums, one band block: filter, write, record, print
DrumsBand ==
    /\ pc = "drums_band"
    /\ \E sf_fails \in BOOLEAN :
         LET band == DrumBands(sr)[band_i]
             filtered == FilterFrequencyRange(y, sr, band.low, band.high)
             band_file == BandFile(drum_dir, drum_file, band.label)
             wr == IF filtered.exc = "none"
                   THEN WriteAudioFile(band_file, filtered.value, sr,
                                       DefaultBitDepth, FALSE, sf_fails)
                   ELSE [exc |-> filtered.exc, dirs |-> dirs, files |-> files,
                         wrote |-> FALSE]
             ok == wr.exc = "none"
         IN  /\ designed' = Append(designed,
                                   DesignEdges(sr, band.low, band.high))
             /\ dirs' = wr.dirs
             /\ files' = wr.files
             /\ written' = IF wr.wrote
                           THEN Append(written, <<"separate_drums", band_file>>)
                           ELSE written
             /\ output_files' = IF ok
                                THEN DictSet(output_files, band.label, band_file)
                                ELSE output_files
             /\ stdout' = Append(stdout, IF ok THEN "saved" ELSE DrumsHandler(wr.exc).message)
             /\ exit_code' = IF ok THEN exit_code
                             ELSE DrumsHandler(wr.exc).code
             /\ band_i' = IF ok THEN band_i + 1 ELSE band_i
             /\ pc' = IF ~ok THEN "exited"
                      ELSE IF band_i = Len(DrumBands(sr)) THEN "drums_return"
                      ELSE "drums_band"
    /\ y' = AudioAfterFilter(y)
    /\ UNCHANGED <<returned, installed, call, result, decoded, drum_file,
                   drum_dir, sr, drum_files, stem_names, stem_i, stem_out,
                   stem_files>>

\* separate_drums, the closing prints and return output_files
DrumsReturn ==
    /\ pc = "drums_return"
    /\ returned' = returned \cup {"separate_drums"}
    /\ stdout' = Append(stdout, "drum_separation_complete")
    /\ drum_files' = output_files
    /\ IF call.fn = "main"
       THEN /\ pc' = "main_end"
            /\ UNCHANGED result
       ELSE /\ pc' = "done"
            /\ result' = Ok(output_files)
    /\ UNCHANGED <<installed, dirs, files, call, exit_code, written, decoded,
                   designed, drum_file, drum_dir, y, sr, output_files, band_i,
                   stem_names, stem_i, stem_out, stem_files>>

(***************************************************************************)
(* separator.py: separate_stems                                            *)
(***************************************************************************)
\* separator.sources of the models get_model can return
SourceLists == { <<"drums", "bass", "other", "vocals">>,
                 <<"vocals", "accompaniment">> }

\* The two except blocks of separate_stems: the message printed and the
\* code given to sys.exit.
StemsHandler(exc) ==
    [message |-> IF exc = "ImportError" THEN "error_demucs_not_installed"
                 ELSE "error_during_stem_separation",
     code |-> 1]

\* separate_stems, from the imports to output_files = {}.  fails: get_model,
\* AudioFile.read or apply_model raises.
StemsSeparate ==
    /\ pc = "stems"
    /\ \E sources \in SourceLists, fails \in BOOLEAN :
         LET exc == IF "demucs" \notin installed THEN "ImportError"
                    ELSE IF fails \/ call.input_file \notin DOMAIN files
                    THEN "Exception"
                    ELSE "none"
             ok == exc = "none"
         IN  /\ stem_names' = IF ok THEN sources ELSE stem_names
             /\ dirs' = IF ok THEN dirs \cup {call.output_stems} ELSE dirs
             /\ stdout' = IF ok
                          THEN stdout \o <<"loading_model", "separating", "saving">>
                          ELSE Append(stdout, StemsHandler(exc).message)
             /\ exit_code' = IF ok THEN exit_code
                             ELSE StemsHandler(exc).code
             /\ pc' = IF ok THEN "stems_save" ELSE "exited"
    /\ stem_i' = 1
    /\ stem_out' = <<>>
    /\ UNCHANGED <<returned, installed, files, call, result, written, decoded, designed,
                   drum_file, drum_dir, y, sr, output_files, band_i, drum_files,
                   stem_files>>

\* separate_stems, one pass of the save loop.  save_fails: save_audio raises.
\* The audio saved is the separator's output for the source, kept by name.
StemsSave ==
    /\ pc = "stems_save"
    /\ \E save_fails \in BOOLEAN :
         LET name == stem_names[stem_i]
             stem_file == Path(call.output_stems,
                               Append(PathStem(call.input_file), name))
             ok == ~save_fails
         IN  /\ files' = IF ok
                         THEN PutFile(files, stem_file,
                                      [audio |-> [source |-> name],
                                       samplerate |-> SeparatorSampleRate,
                                       subtype |-> "PCM_16"])
                         ELSE files
             /\ written' = IF ok
                           THEN Append(written, <<"separate_stems", stem_file>>)
                           ELSE written
             /\ stem_out' = IF ok THEN DictSet(stem_out, name, stem_file)
                            ELSE stem_out
             /\ stdout' = Append(stdout, IF ok THEN "saved"
                                         ELSE StemsHandler("Exception").message)
             /\ exit_code' = IF ok THEN exit_code
                             ELSE StemsHandler("Exception").code
             /\ stem_i' = IF ok THEN stem_i + 1 ELSE stem_i
             /\ pc' = IF ~ok THEN "exited"
                      ELSE IF stem_i = Len(stem_names) THEN "stems_return"
                      ELSE "stems_save"
    /\ UNCHANGED <<returned, installed, dirs, call, result, decoded, designed, drum_file,
                   drum_dir, y, sr, output_files, band_i, drum_files, stem_names,
                   stem_files>>

\* separate_stems, the closing print and return output_files
StemsReturn ==
    /\ pc = "stems_return"
    /\ returned' = returned \cup {"separate_stems"}
    /\ stdout' = Append(stdout, "stem_separation_complete")
    /\ stem_files' = stem_out
    /\ IF call.fn = "main"
       THEN /\ pc' = "main_step2"
            /\ UNCHANGED result
       ELSE /\ pc' = "done"
            /\ result' = Ok(stem_out)
    /\ UNCHANGED <<installed, dirs, files, call, exit_code, written, decoded,
                   designed, drum_file, drum_dir, y, sr, output_files, band_i,
                   drum_files, stem_names, stem_i, stem_out>>

(***************************************************************************)
(* cli.py: main                                                            *)
(***************************************************************************)
Modes == {"stems", "drums", "both"}

InputFile == Path("music", <<"song">>)

MissingFile == Path("music", <<"missing">>)

InputPaths == {InputFile, MissingFile}

\* main, from parse_args to the call of the first operation
CallMain ==
    /\ pc = "idle"
    /\ \E mode \in Modes, input_file \in InputPaths :
         LET exists == input_file \in DOMAIN files
         IN  /\ call' = [fn |-> "main", mode |-> mode, input_file |-> input_file,
                         output_stems |-> "output_stems",
                         output_drums |-> "output_drums"]
             /\ stdout' = IF exists THEN <<"banner">>
                          ELSE <<"error_input_file_not_found">>
             /\ exit_code' = IF exists THEN exit_code ELSE 1
             /\ pc' = IF ~exists THEN "exited"
                      ELSE IF mode \in {"stems", "both"} THEN "stems"
                      ELSE "drums_load"
             /\ drum_file' = IF exists /\ mode = "drums" THEN input_file
                             ELSE drum_file
             /\ drum_dir' = IF exists /\ mode = "drums" THEN "output_drums"
                            ELSE drum_dir
    /\ UNCHANGED <<returned, installed, dirs, files, result, written, decoded, designed,
                   y, sr, output_files, band_i, drum_files, stem_names, stem_i,
                   stem_out, stem_files>>

\* A slip in main: the second step tests the stems for a label drums but
\* not the mode.
MainStep2NoModeCheck ==
    /\ pc = "main_step2"
    /\ IF "drums" \in DOMAIN stem_files
       THEN /\ drum_file' = stem_files["drums"]
            /\ drum_dir' = call.output_drums
            /\ stdout' = Append(stdout, "step2")
            /\ pc' = "drums_load"
       ELSE /\ pc' = "main_end"
            /\ UNCHANGED <<drum_file, drum_dir, stdout>>
    /\ UNCHANGED <<returned, installed, dirs, files, call, result, exit_code,
                   written, decoded, designed, y, sr, output_files, band_i,
                   drum_files, stem_names, stem_i, stem_out, stem_files>>

\* main, after separate_stems returned: the second step of mode both
MainStep2 ==
    /\ pc = "main_step2"
    /\ IF call.mode = "both" /\ "drums" \in DOMAIN stem_files
       THEN /\ drum_file' = stem_files["drums"]
            /\ drum_dir' = call.output_drums
            /\ stdout' = Append(stdout, "step2")
            /\ pc' = "drums_load"
       ELSE /\ pc' = "main_end"
            /\ UNCHANGED <<drum_file, drum_dir, stdout>>
    /\ UNCHANGED <<returned, installed, dirs, files, call, result, exit_code, written,
                   decoded, designed, y, sr, output_files, band_i, drum_files,
                   stem_names, stem_i, stem_out, stem_files>>

\* main, the closing banner; the process then ends with exit code 0
MainEnd ==
    /\ pc = "main_end"
    /\ stdout' = Append(stdout, "all_operations_completed")
    /\ exit_code' = 0
    /\ pc' = "exited"
    /\ UNCHANGED <<returned, installed, dirs, files, call, result, written, decoded,
                   designed, drum_file, drum_dir, y, sr, output_files, band_i,
                   drum_files, stem_names, stem_i, stem_out, stem_files>>

(***************************************************************************)
(* The functions of unmix/__init__.py, called as a library.                *)
(***************************************************************************)
CallSeparateDrums ==
    /\ pc = "idle"
    /\ \E f \in InputPaths :
         /\ call' = [fn |-> "separate_drums", drum_file |-> f,
                     output_dir |-> "output_drums"]
         /\ drum_file' = f
    /\ drum_dir' = "output_drums"
    /\ pc' = "drums_load"
    /\ UNCHANGED <<returned, installed, dirs, files, result, exit_code, stdout, written,
                   decoded, designed, y, sr, output_files, band_i, drum_files,
                   stem_names, stem_i, stem_out, stem_files>>

CallSeparateStems ==
    /\ pc = "idle"
    /\ \E f \in InputPaths :
         call' = [fn |-> "separate_stems", input_file |-> f,
                  output_stems |-> "output_stems"]
    /\ pc' = "stems"
    /\ UNCHANGED <<returned, installed, dirs, files, result, exit_code, stdout, written,
                   decoded, designed, drum_file, drum_dir, y, sr, output_files,
                   band_i, drum_files, stem_names, stem_i, stem_out, stem_files>>

SampleRates == {8000, 44100}

Frequencies == {0, 20, 100, 3980, 4000, 5000, 21900, 22050, 30000}

CallFilterFrequencyRange ==
    /\ pc = "idle"
    /\ \E audio \in Waveforms, rate \in SampleRates,
          low_freq \in Frequencies, high_freq \in Frequencies :
         /\ call' = [fn |-> "filter_frequency_range", audio |-> audio,
                     sr |-> rate, low_freq |-> low_freq, high_freq |-> high_freq]
         /\ result' = FilterFrequencyRange(audio, rate, low_freq, high_freq)
         /\ designed' = IF "scipy" \in installed
                        THEN <<DesignEdges(rate, low_freq, high_freq)>>
                        ELSE designed
    /\ returned' = IF result'.exc = "none" THEN {"filter_frequency_range"} ELSE {}
    /\ pc' = "done"
    /\ UNCHANGED <<installed, dirs, files, exit_code, stdout, written, decoded,
                   drum_file, drum_dir, y, sr, output_files, band_i, drum_files,
                   stem_names, stem_i, stem_out, stem_files>>

BitDepths == ValidBitDepths \cup {0, 48}

WritePaths == {Path("output_drums", <<"test">>), Path("new_dir", <<"test">>)}

CallWriteAudioFile ==
    /\ pc = "idle"
    /\ \E filepath \in WritePaths, audio \in Waveforms, rate \in SampleRates,
          bit_depth \in BitDepths, normalize \in BOOLEAN, sf_fails \in BOOLEAN :
         LET wr == WriteAudioFile(filepath, audio, rate, bit_depth, normalize,
                                  sf_fails)
         IN  /\ call' = [fn |-> "write_audio_file", filepath |-> filepath,
                         audio |-> audio, sample_rate |-> rate,
                         bit_depth |-> bit_depth, normalize |-> normalize]
             /\ result' = IF wr.exc = "none" THEN Ok(<<>>) ELSE Raise(wr.exc)
             /\ dirs' = wr.dirs
             /\ files' = wr.files
             /\ written' = IF wr.wrote
                           THEN Append(written, <<"write_audio_file", filepath>>)
                           ELSE written
    /\ returned' = IF result'.exc = "none" THEN {"write_audio_file"} ELSE {}
    /\ pc' = "done"
    /\ UNCHANGED <<installed, exit_code, stdout, decoded, designed, drum_file,
                   drum_dir, y, sr, output_files, band_i, drum_files, stem_names,
                   stem_i, stem_out, stem_files>>

\* 0 stands for None
TargetRates == {0, 22050, 44100}

CallLoadAudioFile ==
    /\ pc = "idle"
    /\ \E filepath \in InputPaths, sample_rate \in TargetRates, mono \in BOOLEAN,
          offset \in {0, 1}, duration \in {0, 1},
          audio \in Waveforms, decode_fails \in BOOLEAN :
         LET got == LoadAudioFile(filepath, sample_rate, mono, audio,
                                  decode_fails)
         IN  /\ mono => NDim(audio) = 1
             /\ call' = [fn |-> "load_audio_file", filepath |-> filepath,
                         sample_rate |-> sample_rate, mono |-> mono,
                         offset |-> offset, duration |-> duration]
             /\ result' = [exc |-> got.exc, value |-> got.value]
             /\ decoded' = IF got.decode THEN decoded \cup {filepath} ELSE decoded
    /\ returned' = IF result'.exc = "none" THEN {"load_audio_file"} ELSE {}
    /\ pc' = "done"
    /\ UNCHANGED <<installed, dirs, files, exit_code, stdout, written, designed,
                   drum_file, drum_dir, y, sr, output_files, band_i, drum_files,
                   stem_names, stem_i, stem_out, stem_files>>

(***************************************************************************)
(* The environment and the specification.                                  *)
(***************************************************************************)
Libraries == {"scipy", "scipy_checks_order", "librosa", "soundfile", "demucs"}

\* Everything imports; scipy is one that does not check the band order;
\* or one library is missing.
Environments ==
    { Libraries,
      Libraries \ {"scipy_checks_order"},
      Libraries \ {"scipy", "scipy_checks_order"},
      Libraries \ {"librosa"},
      Libraries \ {"soundfile"},
      Libraries \ {"demucs"} }

InputContent == [audio |-> EmptyWave, samplerate |-> 22050, subtype |-> "PCM_16"]

StaleContent == [audio |-> EmptyWave, samplerate |-> 22050, subtype |-> "stale"]

\* A disk with the input file only, and one an earlier run left outputs on.
FreshFiles == [p \in {InputFile} |-> InputContent]

UsedFiles ==
    [p \in {InputFile, Path("output_drums", <<"song", "kick">>),
            Path("output_stems", <<"song", "drums">>)} |->
       IF p = InputFile THEN InputContent ELSE StaleContent]

Init ==
    /\ installed \in Environments
    /\ \E used \in BOOLEAN :
         /\ dirs = IF used THEN {"music", "output_stems", "output_drums"}
                   ELSE {"music"}
         /\ files = IF used THEN UsedFiles ELSE FreshFiles
    /\ pc = "idle"
    /\ call = [fn |-> "none"]
    /\ result = Ok(<<>>)
    /\ exit_code = -1
    /\ stdout = <<>>
    /\ written = <<>>
    /\ returned = {}
    /\ decoded = {}
    /\ designed = <<>>
    /\ drum_file = InputFile
    /\ drum_dir = "output_drums"
    /\ y = EmptyWave
    /\ sr = 0
    /\ output_files = <<>>
    /\ band_i = 1
    /\ drum_files = <<>>
    /\ stem_names = <<>>
    /\ stem_i = 1
    /\ stem_out = <<>>
    /\ stem_files = <<>>

Next ==
    \/ CallMain
    \/ MainStep2
    \/ MainEnd
    \/ CallSeparateDrums
    \/ DrumsLoad
    \/ DrumsBand
    \/ DrumsReturn
    \/ CallSeparateStems
    \/ StemsSeparate
    \/ StemsSave
    \/ StemsReturn
    \/ CallFilterFrequencyRange
    \/ CallWriteAudioFile
    \/ CallLoadAudioFile

Spec == Init /\ [][Next]_vars

(***************************************************************************)
(* Properties.                                                             *)
(***************************************************************************)
\* The paths fn has written in this process.
WrittenBy(fn) == {written[i][2] : i \in {j \in 1..Len(written) : written[j][1] = fn}}

\* The writes of separate_drums, in order.
DrumWrites == SelectSeq(written, LAMBDA w : w[1] = "separate_drums")

Printed(message) == \E i \in 1..Len(stdout) : stdout[i] = message

LibraryCallOver(fn) == call.fn = fn /\ pc = "done"

\* C1: whenever separate_drums has returned, the mapping it returned has
\* exactly the labels kick, snare, hihat and toms, and each label maps to the
\* file <output_dir>/<input-stem>_<label>.wav, which exists and was written by
\* that call.
C1_FourLabeledOutputs ==
    "separate_drums" \in returned =>
        /\ DOMAIN drum_files = {"kick", "snare", "hihat", "toms"}
        /\ \A label \in DOMAIN drum_files :
             /\ drum_files[label] =
                    Path(drum_dir, Append(PathStem(drum_file), label))
             /\ drum_files[label] \in WrittenBy("separate_drums")
             /\ drum_files[label] \in DOMAIN files

\* separate_drums has returned for a stereo waveform, on a disk where an
\* earlier run had left its outputs.
C1_Witness ==
    /\ "separate_drums" \in returned
    /\ call.fn = "separate_drums"
    /\ y.shape = <<2, MaxSamples>>
    /\ Path("output_stems", <<"song", "drums">>) \in DOMAIN files

\* The band table of the specification.
SpecBands(rate) ==
    << <<"kick", 20, 200>>, <<"snare", 150, 4000>>,
       <<"hihat", 5000, rate \div 2>>, <<"toms", 80, 500>> >>

\* What write_audio_file hands to sf.write for an array.
AsFrames(audio) == IF NDim(audio) > 1 THEN Transpose(audio) ELSE audio

\* C2: separate_drums designs and writes the bands kick (20, 200), snare
\* (150, 4000), hihat (5000, sample_rate/2), toms (80, 500) in this order, the
\* sample rate being the 44100 Hz it loads at, and the file of each label holds
\* the loaded waveform filtered with that label's band.
C2_FixedBandsInOrder ==
    /\ Len(DrumWrites) > 0 => 2 * (sr \div 2) = sr /\ sr = 44100
    /\ Len(DrumWrites) <= 4
    /\ Len(DrumWrites) <= Len(designed)
    /\ \A i \in 1..Len(DrumWrites) :
         LET p == DrumWrites[i][2]
             b == SpecBands(sr)[i]
         IN  /\ p.name[Len(p.name)] = b[1]
             /\ designed[i].low = 200 * b[2]
             /\ designed[i].high = Min(200 * b[3], 99 * sr)
             /\ files[p].samplerate = sr
             /\ files[p].audio =
                    AsFrames(FilterFrequencyRange(y, sr, b[2], b[3]).value)

\* All four bands of a non-empty stereo waveform have been written.
C2_Witness ==
    /\ Len(DrumWrites) = 4
    /\ y.shape = <<2, MaxSamples>>
    /\ "separate_drums" \in returned

\* The files an operation writes when it fully succeeds.
OutputCount(fn) == IF fn = "separate_drums" THEN 4 ELSE Len(stem_names)

\* C3: when a drum split or a stem separation is over, by a return or by the
\* end of the process, it has written all of its output files or none.
C3_AllOrNothing ==
    pc \in {"done", "exited"} =>
        \A fn \in {"separate_drums", "separate_stems"} :
            Cardinality(WrittenBy(fn)) \in {0, OutputCount(fn)}

\* C4: a failure inside separate_drums or separate_stems, called as a
\* library, never ends the process: the caller gets an exception.
C4_LibraryNeverExits ==
    call.fn \in {"separate_drums", "separate_stems"} => exit_code = -1

\* The band of a filter_frequency_range call is degenerate: its normalized
\* low edge is not below its clamped normalized high edge.
DegenerateBand(rate, low_freq, high_freq) ==
    200 * low_freq >= Min(200 * high_freq, 99 * rate)

\* C5: filter_frequency_range, called where scipy imports, raises for every
\* degenerate band and returns no waveform.
C5_InvalidBandRejected ==
    (/\ LibraryCallOver("filter_frequency_range")
     /\ "scipy" \in installed
     /\ DegenerateBand(call.sr, call.low_freq, call.high_freq))
        => result.exc # "none"

\* C6, as stated: a request whose band is 0 < low_hz < high_hz with high_hz >=
\* sample_rate/2 does not raise (here even where the scipy that imports does
\* not check the order of the band edges).
C6_NyquistRequestNeverRaises ==
    (/\ LibraryCallOver("filter_frequency_range")
     /\ "scipy" \in installed
     /\ "scipy_checks_order" \notin installed
     /\ 0 < call.low_freq /\ call.low_freq < call.high_freq
     /\ 2 * call.high_freq >= call.sr)
        => result.exc = "none"

\* C6, amended: every high edge handed to the filter design is
\* min(high_hz/(sample_rate/2), 0.99), so below 1.0; a request with high_hz >=
\* sample_rate/2 whose normalized low edge is above 0 and below 0.99 does not
\* raise where scipy imports, and is designed with high edge exactly 0.99.
C6_HighEdgeClamped ==
    /\ LibraryCallOver("filter_frequency_range") /\ "scipy" \in installed =>
         /\ Len(designed) = 1
         /\ designed[1].high = Min(200 * call.high_freq, 99 * call.sr)
         /\ designed[1].high < 100 * call.sr
         /\ (/\ 2 * call.high_freq >= call.sr
             /\ 0 < 200 * call.low_freq
             /\ 200 * call.low_freq < 99 * call.sr)
                => /\ result.exc = "none"
                   /\ designed[1].high = 99 * call.sr
    /\ pc \in {"drums_band", "drums_return"} =>
         /\ \A i \in 1..Len(designed) : designed[i].high < 100 * sr
         /\ Len(designed) >= 3 => designed[3].high = 99 * sr

\* The hihat request at 44100 Hz has returned.
C6_Witness ==
    /\ LibraryCallOver("filter_frequency_range")
    /\ call.sr = 44100 /\ call.low_freq = 5000 /\ call.high_freq = 22050
    /\ result.exc = "none"
    /\ designed[1].high = 99 * 44100

\* C7: where soundfile imports, a write_audio_file call with a bit depth
\* outside {8, 16, 24, 32} raises ValueError and leaves the directories and
\* the files as they were.
C7_RejectsBeforeAnyIO ==
    [][(/\ pc = "idle"
        /\ call'.fn = "write_audio_file"
        /\ "soundfile" \in installed
        /\ call'.bit_depth \notin {8, 16, 24, 32})
           => /\ result'.exc = "ValueError"
              /\ files' = files
              /\ dirs' = dirs]_vars

\* The band of a filter_frequency_range call is valid.
ValidBand(rate, low_freq, high_freq) ==
    /\ 0 < low_freq
    /\ 200 * low_freq < Min(200 * high_freq, 99 * rate)

\* C8: the waveform filter_frequency_range returns has the shape of the one
\* it was given: as many dimensions, channels and samples; and for a valid
\* band it does return one where scipy imports.
C8_ShapePreserved ==
    LibraryCallOver("filter_frequency_range") =>
        /\ result.exc = "none" =>
             /\ result.value.shape = call.audio.shape
             /\ WellShaped(result.value)
        /\ (/\ "scipy" \in installed
            /\ ValidBand(call.sr, call.low_freq, call.high_freq))
               => result.exc = "none"

\* A stereo waveform of MaxSamples samples was filtered with a valid band.
C8_Witness ==
    /\ LibraryCallOver("filter_frequency_range")
    /\ ValidBand(call.sr, call.low_freq, call.high_freq)
    /\ result.exc = "none"
    /\ call.audio.shape = <<2, MaxSamples>>
    /\ MaxSamples > 0

\* C9, as stated: load_audio_file on a path that does not exist raises
\* FileNotFoundError.
C9_MissingPathRaisesNotFound ==
    (LibraryCallOver("load_audio_file") /\ call.filepath \notin DOMAIN files)
        => result.exc = "FileNotFoundError"

\* C9, amended: load_audio_file on a path that does not exist never reaches
\* librosa.load, whatever its other arguments; it raises FileNotFoundError
\* where librosa imports and ImportError where it does not.  No path that
\* does not exist is ever handed to librosa.load.
C9_MissingPathNeverDecoded ==
    /\ decoded \subseteq DOMAIN files
    /\ (LibraryCallOver("load_audio_file") /\ call.filepath \notin DOMAIN files)
          => /\ decoded = {}
             /\ result.exc = IF "librosa" \in installed
                             THEN "FileNotFoundError" ELSE "ImportError"

\* load_audio_file was called on a missing path with a target rate, mono, an
\* offset and a duration, where librosa imports.
C9_Witness ==
    /\ LibraryCallOver("load_audio_file")
    /\ call.filepath \notin DOMAIN files
    /\ "librosa" \in installed
    /\ call.sample_rate = 22050 /\ call.mono /\ call.offset = 1
    /\ call.duration = 1
    /\ result.exc = "FileNotFoundError"

ErrorMessages ==
    {"error_input_file_not_found", "error_missing_library",
     "error_during_drum_separation", "error_demucs_not_installed",
     "error_during_stem_separation"}

\* fn returned, with all of its output files written.
FullySucceeded(fn) ==
    fn \in returned /\ Cardinality(WrittenBy(fn)) = OutputCount(fn)

\* Every operation of the mode of the main() call fully succeeded; in mode
\* both the drum split is one of them when the stems have a label drums.
ModeSucceeded ==
    CASE call.mode = "stems" -> FullySucceeded("separate_stems")
      [] call.mode = "drums" -> FullySucceeded("separate_drums")
      [] call.mode = "both" ->
            /\ FullySucceeded("separate_stems")
            /\ "drums" \in DOMAIN stem_files => FullySucceeded("separate_drums")

\* C10: a run of main() ends with exit code 0 exactly when every operation of
\* its mode fully succeeded and with exit code 1 otherwise, the last thing
\* printed then being an error message; it ends with 1 when the input file is
\* missing; and the success banner is printed only in a run that ends with 0
\* and printed no error message.
C10_ExitCodes ==
    call.fn = "main" =>
        /\ pc = "exited" =>
             /\ exit_code \in {0, 1}
             /\ exit_code = 0 <=> ModeSucceeded
             /\ exit_code = 1 => stdout[Len(stdout)] \in ErrorMessages
             /\ call.input_file \notin DOMAIN files => exit_code = 1
        /\ pc # "exited" => exit_code = -1
        /\ Printed("all_operations_completed") =>
             /\ pc = "exited" /\ exit_code = 0
             /\ \A m \in ErrorMessages : ~Printed(m)

\* A run of mode both has ended with exit code 0 after both operations.
C10_Witness ==
    /\ call.fn = "main" /\ call.mode = "both" /\ pc = "exited"
    /\ exit_code = 0
    /\ FullySucceeded("separate_stems") /\ FullySucceeded("separate_drums")
    /\ Printed("all_operations_completed")

\* A run of mode both has ended with exit code 1 after the stems were written
\* and the drum split failed at its third band.
C10_FailureReached ==
    /\ call.fn = "main" /\ call.mode = "both" /\ pc = "exited"
    /\ exit_code = 1
    /\ FullySucceeded("separate_stems") /\ Len(DrumWrites) = 2

\* separate_drums has been called: it is running, or it has printed.
DrumsStarted ==
    \/ pc \in {"drums_load", "drums_band", "drums_return"}
    \/ \E m \in {"loading_drum_file", "error_missing_library",
                 "error_during_drum_separation", "drum_separation_complete"} :
         Printed(m)

\* separate_stems has been called: it is running, or it has printed.
StemsStarted ==
    \/ pc \in {"stems", "stems_save", "stems_return"}
    \/ \E m \in {"loading_model", "error_demucs_not_installed",
                 "error_during_stem_separation", "stem_separation_complete"} :
         Printed(m)

\* C11: in a run of main(), mode stems never calls separate_drums and mode
\* drums never calls separate_stems; in mode both separate_drums is called
\* only after separate_stems returned with all its stems written, only when
\* the stems have a label drums, and on the file written for that stem, which
\* is not the original input and is the only file it loads; and once
\* separate_stems has returned and main has gone on, separate_drums has been
\* called exactly when the stems have a label drums.
C11_DrumsAfterStems ==
    call.fn = "main" =>
        /\ call.mode = "stems" => ~DrumsStarted
        /\ call.mode = "drums" =>
             /\ ~StemsStarted
             /\ DrumsStarted => drum_file = call.input_file
        /\ (call.mode = "both" /\ DrumsStarted) =>
             /\ FullySucceeded("separate_stems")
             /\ "drums" \in DOMAIN stem_files
             /\ drum_file = stem_files["drums"]
             /\ drum_file \in WrittenBy("separate_stems")
             /\ drum_file # call.input_file
             /\ call.input_file \notin decoded
             /\ decoded \subseteq {drum_file}
        /\ (/\ call.mode = "both"
            /\ "separate_stems" \in returned
            /\ pc \in {"main_end", "exited"})
               => (DrumsStarted <=> "drums" \in DOMAIN stem_files)

\* In mode both the drum split is at its second band, on the drums stem.
C11_Witness ==
    /\ call.fn = "main" /\ call.mode = "both"
    /\ pc = "drums_band" /\ band_i = 2
    /\ drum_file = Path("output_stems", <<"song", "drums">>)
    /\ drum_file \in decoded

\* A run of mode both has ended with exit code 0 without a drum split: the
\* stems had no label drums.
C11_NoDrumsReached ==
    /\ call.fn = "main" /\ call.mode = "both" /\ pc = "exited"
    /\ exit_code = 0
    /\ ~DrumsStarted

\* The orders in which the four band blocks can be computed.
BandOrders == {o \in [1..4 -> 1..4] : \A i, j \in 1..4 : o[i] = o[j] => i = j}

\* The band outputs by label when the blocks are computed in the given order
\* on one array, each block seeing what the blocks before it left in it.
RECURSIVE SplitInOrder(_, _, _, _, _)
SplitInOrder(audio, rate, order, k, outputs) ==
    IF k > Len(order)
    THEN outputs
    ELSE LET band == DrumBands(rate)[order[k]]
             out == FilterFrequencyRange(audio, rate, band.low, band.high)
         IN  SplitInOrder(AudioAfterFilter(audio), rate, order, k + 1,
                          DictSet(outputs, band.label, out))

====
